---- MODULE Spec2Model ----
(***************************************************************************)
(* Model of loopback-clone (src/main.rs): two capture callbacks (the      *)
(* microphone and the game capture) push f32 samples into one ring buffer *)
(* each, and the playback callback pops from both buffers and writes the  *)
(* sums into the output block.                                            *)
(*                                                                         *)
(* The three callbacks run on independent host threads, so each callback  *)
(* is split at its accesses to the shared ring buffers: a step is one     *)
(* read or one publication of a buffer's head or tail together with the   *)
(* thread-local work that follows it.                                     *)
(*                                                                         *)
(* The ring buffers are ringbuf 0.3 HeapRb: push_slice copies as many     *)
(* leading elements as fit and then publishes the tail; pop_iter yields   *)
(* the items visible when it was called and advances the head when the    *)
(* iterator is dropped.                                                    *)
(*                                                                         *)
(* A ring buffer is modelled by the sequence of samples between its head  *)
(* and its tail.  Samples are small integers: they stand for f32 values   *)
(* whose sums are exact, and 0 stands for 0.0.                            *)
(***************************************************************************)
EXTENDS Integers, Sequences, FiniteSets, TLC

\* ----------------------------------------------------- program constants
\* HeapRb::<f32>::new(10_240), the capacity of both ring buffers
RING_CAPACITY == 10240

\* ---------------------------------------------------------------- bounds
\* Spec explores the callbacks over ring buffers of this reduced capacity;
\* SpecFull explores them over ring buffers of RING_CAPACITY
Capacity == 3
\* samples delivered by the capture devices are 1..MaxSample
MaxSample == 2
\* longest capture block the host delivers
MaxBlockLen == 2
\* longest output block the host asks for
MaxOutLen == 2
\* capture invocations per source, playback invocations, err_fn invocations
MaxCaptures == 2
MaxPlaybacks == 2
MaxErrors == 1
\* the same limits under SpecFull
FullCaptures == 1
FullPlaybacks == 1
\* the capacity and the same limits under SpecLive
LiveCapacity == 2
LiveCaptures == 2
LivePlaybacks == 1
\* the same limits under SpecRecover
RecoverCaptures == 3
RecoverPlaybacks == 2

\* ------------------------------------------------------------- constants
Src == {"mic", "capture"}
Streams == <<"mic", "capture", "output">>
\* the value an output slot holds before the callback writes it
Stale == -1

Min(a, b) == IF a < b THEN a ELSE b

\* a block of k samples (&[f32]): 1, 2, .. MaxSample, 1, 2, ..
Block(k) == [i \in 1..k |-> 1 + ((i - 1) % MaxSample)]
\* an output block of k slots as the host hands it over (&mut [f32])
OutBlock(k) == [i \in 1..k |-> Stale]

Take(s, k) == SubSeq(s, 1, k)
Drop(s, k) == SubSeq(s, k + 1, Len(s))

VARIABLES
    capacity,           \* capacity of each HeapRb, set by HeapRb::new
    rb,                 \* rb[c]: the samples between head and tail of channel c
    playing,            \* the streams on which play() has been called
    in_pc,              \* in_pc[c]: position of the capture callback of c
    in_data,            \* in_data[c]: the block (data) of the running capture callback
    in_free,            \* in_free[c]: the free space push_slice read
    in_dropped,         \* in_dropped[c]: samples the last invocation did not enqueue
    in_msgs,            \* in_msgs[c]: "output stream fell behind" lines of the last invocation
    out_pc,             \* position of the playback callback
    data,               \* the output block of the running playback callback
    input_fell_behind,  \* the local flag of output_data_fn
    iter,               \* iter[c]: consumer_c.pop_iter().map(Some).chain(repeat(None))
    subst,              \* the last playback invocation wrote 0.0 in place of a sample
    out_msgs,           \* "input stream fell behind" lines of the last playback invocation
    err_msgs,           \* lines printed by err_fn
    \* history
    delivered,          \* delivered[c]: number of samples the device of c delivered
    accepted,           \* accepted[c]: all samples enqueued into channel c
    lost,               \* lost[c]: number of samples dropped by capture invocations
    removed,            \* removed[c]: all samples removed from channel c
    written,            \* all samples written to output blocks
    silence,            \* some output slot received 0.0 in place of a sample
    offered,            \* offered[c]: all samples the device of c delivered, in order
    quiet,              \* no capture callback took a step since the last playback call
    ncap, nplay         \* invocation counters

chan_vars == <<capacity, rb>>
in_vars == <<in_pc, in_data, in_free, in_dropped, in_msgs>>
out_vars == <<out_pc, data, input_fell_behind, iter, subst, out_msgs>>
hist_vars == <<delivered, accepted, lost, removed, written, silence>>
sched_vars == <<offered, quiet>>
vars == <<capacity, rb, playing, in_pc, in_data, in_free, in_dropped, in_msgs,
          out_pc, data, input_fell_behind, iter, subst, out_msgs, err_msgs,
          delivered, accepted, lost, removed, written, silence, offered, quiet,
          ncap, nplay>>

\* the blocks a capture device may deliver
Blocks == {Block(k) : k \in 1..MaxBlockLen}
\* under SpecFull also a block one sample longer than the ring buffer
FullBlocks == Blocks \cup {Block(RING_CAPACITY + 1)}
\* the output blocks the host may ask for
OutBlocks == {OutBlock(k) : k \in 1..MaxOutLen}

\* ------------------------------------------------------------ ring buffer
\* Producer::free_len
free_len(c) == capacity - Len(rb[c])
\* Consumer::len
len(c) == Len(rb[c])
\* faulty variant: push_slice that does not look at the free space
push_slice_count_all(elems, free) == Len(elems)
\* Producer::push_slice: the number of elements that fit in the free space ...
push_slice_count(elems, free) == Min(Len(elems), free)
\* faulty variant: push_slice that keeps the newest elements of the block
push_slice_elems_newest(elems, count) == SubSeq(elems, Len(elems) - count + 1, Len(elems))
\* ... and the elements copied there
push_slice_elems(elems, count) == Take(elems, count)
\* faulty variant: a callback that reports only when nothing was enqueued
fell_behind_when_none(count, n) == count = 0
\* faulty variant: a flag that stays set once a sample was dropped
fell_behind_sticky(count, n) == count # n \/ \E c \in Src : lost[c] > 0
\* line 24: push_slice(data) != data.len()
fell_behind(count, n) == count # n

\* Consumer::pop_iter: the iterator holds the items visible when it was
\* made (snap), those it has not yielded yet (items) and the number it has
\* yielded (taken); live says that it has not been dropped
NoIter == [snap |-> <<>>, items |-> <<>>, taken |-> 0, live |-> FALSE]
\* faulty variant: an iterator that yields the newest item first
pop_iter_newest_first(c) ==
    LET n == Len(rb[c])
        r == [i \in 1..n |-> rb[c][n + 1 - i]]
    IN  [snap |-> r, items |-> r, taken |-> 0, live |-> TRUE]
pop_iter(c) == [snap |-> rb[c], items |-> rb[c], taken |-> 0, live |-> TRUE]
\* faulty variant: a drop that leaves the head where it was
advance_head_never(q, it) == q
\* faulty variant: a drop that empties the channel
advance_head_clear(q, it) == <<>>
\* PopIterator::drop advances the head by the number of items taken
advance_head(q, it) == Drop(q, it.taken)

\* Option<f32>: None is the empty sequence, Some(x) the sequence <<x>>
None == <<>>
Some(x) == <<x>>

\* Chain<Map<PopIterator, Some>, Repeat<None>>::next: the value it yields ...
chain_value(it) == IF it.live /\ it.items # <<>> THEN Some(Head(it.items)) ELSE None
\* ... and the iterator afterwards; the chain drops an exhausted first half
chain_after(it) ==
    IF it.live /\ it.items # <<>>
    THEN [it EXCEPT !.items = Tail(it.items), !.taken = it.taken + 1]
    ELSE [it EXCEPT !.live = FALSE]

\* Option::unwrap_or(0.0)
unwrap_or_zero(v) == IF v = None THEN 0 ELSE v[1]

\* faulty variant: a closure that writes silence unless both sources have a sample
mix_sample_both(mic_sample, capture_sample) ==
    IF mic_sample = None \/ capture_sample = None
    THEN 0
    ELSE unwrap_or_zero(mic_sample) + unwrap_or_zero(capture_sample)
\* the closure of for_each (line 93)
mix_sample(mic_sample, capture_sample) ==
    unwrap_or_zero(mic_sample) + unwrap_or_zero(capture_sample)

\* faulty variant: sample iterators that are not padded with None, so that
\* the loop ends with the shorter channel
RECURSIVE for_each_unpadded(_, _, _, _, _)
for_each_unpadded(mic, cap, out, i, sub) ==
    LET mic_sample == chain_value(mic)
        capture_sample == chain_value(cap)
        mic2 == chain_after(mic)
        cap2 == chain_after(cap)
    IN  IF i > Len(out) \/ mic_sample = None \/ capture_sample = None
        THEN [mic |-> mic2, capture |-> cap2, data |-> out, subst |-> sub]
        ELSE for_each_unpadded(mic2, cap2,
                      [out EXCEPT ![i] = mix_sample(mic_sample, capture_sample)],
                      i + 1, sub)

\* .zip(..).zip(data).for_each(..): Zip::next asks the pair of sample
\* iterators first and the output block second, and the loop ends when the
\* output block has no slot left.  i is the next slot of out.
RECURSIVE for_each(_, _, _, _, _)
for_each(mic, cap, out, i, sub) ==
    LET mic_sample == chain_value(mic)
        capture_sample == chain_value(cap)
        mic2 == chain_after(mic)
        cap2 == chain_after(cap)
    IN  IF i > Len(out)
        THEN [mic |-> mic2, capture |-> cap2, data |-> out, subst |-> sub]
        ELSE for_each(mic2, cap2,
                      [out EXCEPT ![i] = mix_sample(mic_sample, capture_sample)],
                      i + 1,
                      sub \/ mic_sample = None \/ capture_sample = None)

\* ------------------------------------------------------------------ Init
\* main, lines 73-112: the ring buffers are made and the streams are built
Constructed(cap) ==
    /\ capacity = cap
    /\ rb = [c \in Src |-> <<>>]
    /\ playing = {}
    /\ in_pc = [c \in Src |-> "idle"]
    /\ in_data = [c \in Src |-> <<>>]
    /\ in_free = [c \in Src |-> 0]
    /\ in_dropped = [c \in Src |-> 0]
    /\ in_msgs = [c \in Src |-> 0]
    /\ out_pc = "idle"
    /\ data = <<>>
    /\ input_fell_behind = FALSE
    /\ iter = [c \in Src |-> NoIter]
    /\ subst = FALSE
    /\ out_msgs = 0
    /\ err_msgs = 0
    /\ delivered = [c \in Src |-> 0]
    /\ accepted = [c \in Src |-> <<>>]
    /\ lost = [c \in Src |-> 0]
    /\ removed = [c \in Src |-> <<>>]
    /\ written = <<>>
    /\ silence = FALSE
    /\ offered = [c \in Src |-> <<>>]
    /\ quiet = FALSE
    /\ ncap = [c \in Src |-> 0]
    /\ nplay = 0

Init == Constructed(Capacity)
InitFull == Constructed(RING_CAPACITY)
InitLive == Constructed(LiveCapacity)

\* --------------------------------------------------------------- actions
\* main, lines 117-119: the streams are started in the order mic, capture, output
play ==
    /\ Cardinality(playing) < 3
    /\ playing' = playing \cup {Streams[Cardinality(playing) + 1]}
    /\ UNCHANGED <<chan_vars, in_vars, out_vars, err_msgs, hist_vars, sched_vars,
                   ncap, nplay>>

\* the capture callback of c is invoked with a block (line 22); push_slice
\* reads the free space of the channel (line 24)
input_call(c, limit, blocks) ==
    /\ c \in playing
    /\ in_pc[c] = "idle"
    /\ ncap[c] < limit
    /\ \E block \in blocks :
        /\ in_data' = [in_data EXCEPT ![c] = block]
        /\ delivered' = [delivered EXCEPT ![c] = delivered[c] + Len(block)]
        /\ offered' = [offered EXCEPT ![c] = offered[c] \o block]
    /\ quiet' = FALSE
    /\ in_free' = [in_free EXCEPT ![c] = free_len(c)]
    /\ in_pc' = [in_pc EXCEPT ![c] = "push"]
    /\ in_dropped' = [in_dropped EXCEPT ![c] = 0]
    /\ in_msgs' = [in_msgs EXCEPT ![c] = 0]
    /\ ncap' = [ncap EXCEPT ![c] = ncap[c] + 1]
    /\ UNCHANGED <<chan_vars, playing, out_vars, err_msgs,
                   accepted, lost, removed, written, silence, nplay>>

\* faulty variant: a callback that waits for the playback callback to make
\* room when its block does not fit
input_push_wait(c) ==
    /\ in_pc[c] = "push"
    /\ IF Len(in_data[c]) > in_free[c]
       THEN /\ in_free' = [in_free EXCEPT ![c] = free_len(c)]
            /\ UNCHANGED <<rb, accepted, in_dropped, lost, in_msgs, in_data, in_pc>>
       ELSE /\ rb' = [rb EXCEPT ![c] = rb[c] \o in_data[c]]
            /\ accepted' = [accepted EXCEPT ![c] = accepted[c] \o in_data[c]]
            /\ in_dropped' = [in_dropped EXCEPT ![c] = 0]
            /\ in_msgs' = [in_msgs EXCEPT ![c] = 0]
            /\ in_data' = [in_data EXCEPT ![c] = <<>>]
            /\ in_pc' = [in_pc EXCEPT ![c] = "idle"]
            /\ UNCHANGED <<in_free, lost>>
    /\ UNCHANGED <<capacity, playing, out_vars, err_msgs,
                   delivered, removed, written, silence, offered, ncap, nplay>>
    /\ quiet' = FALSE

\* push_slice copies the elements that fit and publishes the tail; the
\* callback compares the count with data.len() and reports (lines 24-29)
input_push(c) ==
    /\ in_pc[c] = "push"
    /\ LET count == push_slice_count(in_data[c], in_free[c])
           elems == push_slice_elems(in_data[c], count)
           output_fell_behind == fell_behind(count, Len(in_data[c]))
       IN  /\ rb' = [rb EXCEPT ![c] = rb[c] \o elems]
           /\ accepted' = [accepted EXCEPT ![c] = accepted[c] \o elems]
           /\ in_dropped' = [in_dropped EXCEPT ![c] = Len(in_data[c]) - Len(elems)]
           /\ lost' = [lost EXCEPT ![c] = lost[c] + Len(in_data[c]) - Len(elems)]
           /\ in_msgs' = [in_msgs EXCEPT ![c] = IF output_fell_behind THEN 1 ELSE 0]
    /\ in_data' = [in_data EXCEPT ![c] = <<>>]
    /\ in_pc' = [in_pc EXCEPT ![c] = "idle"]
    /\ UNCHANGED <<capacity, playing, in_free, out_vars, err_msgs,
                   delivered, removed, written, silence, offered, ncap, nplay>>
    /\ quiet' = FALSE

\* the playback callback is invoked with an output block (line 76); the
\* first operand of line 78 reads consumer_mic.len()
output_call(limit) ==
    /\ "output" \in playing
    /\ out_pc = "idle"
    /\ nplay < limit
    /\ \E block \in OutBlocks :
        /\ data' = block
        /\ IF len("mic") < Len(block)
           THEN input_fell_behind' = TRUE /\ out_pc' = "iter_mic"
           ELSE input_fell_behind' = FALSE /\ out_pc' = "len_capture"
    /\ iter' = [c \in Src |-> NoIter]
    /\ subst' = FALSE
    /\ out_msgs' = 0
    /\ nplay' = nplay + 1
    /\ quiet' = TRUE
    /\ UNCHANGED <<chan_vars, playing, in_vars, err_msgs, hist_vars, offered, ncap>>

\* the second operand of line 78 reads consumer_capture.len()
output_len_capture ==
    /\ out_pc = "len_capture"
    /\ input_fell_behind' = (len("capture") < Len(data))
    /\ out_pc' = "iter_mic"
    /\ UNCHANGED <<chan_vars, playing, in_vars, data, iter, subst, out_msgs, err_msgs,
                   hist_vars, sched_vars, ncap, nplay>>

\* consumer_mic.pop_iter() (lines 81-82)
output_iter_mic ==
    /\ out_pc = "iter_mic"
    /\ iter' = [iter EXCEPT !["mic"] = pop_iter("mic")]
    /\ out_pc' = "iter_capture"
    /\ UNCHANGED <<chan_vars, playing, in_vars, data, input_fell_behind, subst,
                   out_msgs, err_msgs, hist_vars, sched_vars, ncap, nplay>>

\* consumer_capture.pop_iter() (lines 86-87)
output_iter_capture ==
    /\ out_pc = "iter_capture"
    /\ iter' = [iter EXCEPT !["capture"] = pop_iter("capture")]
    /\ out_pc' = "for_each"
    /\ UNCHANGED <<chan_vars, playing, in_vars, data, input_fell_behind, subst,
                   out_msgs, err_msgs, hist_vars, sched_vars, ncap, nplay>>

\* the for_each loop (lines 91-94); a PopIterator that ran out inside the
\* loop was dropped there by its chain
output_for_each ==
    /\ out_pc = "for_each"
    /\ LET r == for_each(iter["mic"], iter["capture"], data, 1, FALSE)
           ended == {c \in Src : ~r[c].live}
       IN  /\ data' = r.data
           /\ iter' = [c \in Src |-> r[c]]
           /\ rb' = [c \in Src |->
                IF c \in ended THEN advance_head(rb[c], r[c]) ELSE rb[c]]
           /\ removed' = [c \in Src |->
                IF c \in ended THEN removed[c] \o Take(r[c].snap, r[c].taken) ELSE removed[c]]
           /\ written' = written \o r.data
           /\ subst' = r.subst
           /\ silence' = (silence \/ r.subst)
    /\ out_pc' = "drop_mic"
    /\ UNCHANGED <<capacity, playing, in_vars, input_fell_behind, out_msgs, err_msgs,
                   delivered, accepted, lost, sched_vars, ncap, nplay>>

\* drop of channel c's PopIterator at the end of the statement (line 94)
drop_iter(c) ==
    IF iter[c].live
    THEN /\ rb' = [rb EXCEPT ![c] = advance_head(rb[c], iter[c])]
         /\ removed' = [removed EXCEPT ![c] = removed[c] \o Take(iter[c].snap, iter[c].taken)]
         /\ iter' = [iter EXCEPT ![c].live = FALSE]
    ELSE UNCHANGED <<rb, removed, iter>>

\* the iterators are dropped in the order they were zipped: consumer_mic's first
output_drop_mic ==
    /\ out_pc = "drop_mic"
    /\ drop_iter("mic")
    /\ out_pc' = "drop_capture"
    /\ UNCHANGED <<capacity, playing, in_vars, data, input_fell_behind, subst, out_msgs,
                   err_msgs, delivered, accepted, lost, written, silence, sched_vars, ncap, nplay>>

\* then consumer_capture's
output_drop_capture ==
    /\ out_pc = "drop_capture"
    /\ drop_iter("capture")
    /\ out_pc' = "report"
    /\ UNCHANGED <<capacity, playing, in_vars, data, input_fell_behind, subst, out_msgs,
                   err_msgs, delivered, accepted, lost, written, silence, sched_vars, ncap, nplay>>

\* the callback reports and returns (lines 95-98)
output_report ==
    /\ out_pc = "report"
    /\ iter' = [c \in Src |-> NoIter]
    /\ out_msgs' = IF input_fell_behind THEN 1 ELSE 0
    /\ out_pc' = "idle"
    /\ UNCHANGED <<chan_vars, playing, in_vars, data, input_fell_behind, subst,
                   err_msgs, hist_vars, sched_vars, ncap, nplay>>

\* the host reports a stream error (lines 126-128)
err_fn ==
    /\ playing # {}
    /\ err_msgs < MaxErrors
    /\ err_msgs' = err_msgs + 1
    /\ UNCHANGED <<chan_vars, playing, in_vars, out_vars, hist_vars, sched_vars, ncap, nplay>>

output_steps ==
    \/ output_len_capture
    \/ output_iter_mic
    \/ output_iter_capture
    \/ output_for_each
    \/ output_drop_mic
    \/ output_drop_capture
    \/ output_report

Next ==
    \/ play
    \/ \E c \in Src : input_call(c, MaxCaptures, Blocks)
    \/ \E c \in Src : input_push(c)
    \/ output_call(MaxPlaybacks)
    \/ output_steps
    \/ err_fn

NextFull ==
    \/ play
    \/ \E c \in Src : input_call(c, FullCaptures, FullBlocks)
    \/ \E c \in Src : input_push(c)
    \/ output_call(FullPlaybacks)
    \/ output_steps

NextLive ==
    \/ play
    \/ \E c \in Src : input_call(c, LiveCaptures, Blocks)
    \/ \E c \in Src : input_push(c)
    \/ output_call(LivePlaybacks)
    \/ output_steps
    \/ err_fn

NextRecover ==
    \/ play
    \/ \E c \in Src : input_call(c, RecoverCaptures, Blocks)
    \/ \E c \in Src : input_push(c)
    \/ output_call(RecoverPlaybacks)
    \/ output_steps

\* a host thread that has entered a callback keeps running it
Fairness ==
    /\ \A c \in Src : WF_vars(input_push(c))
    /\ WF_vars(output_steps)

\* the callbacks over ring buffers of the reduced capacity
Spec == Init /\ [][Next]_vars
\* the callbacks over ring buffers of the program's capacity
SpecFull == InitFull /\ [][NextFull]_vars
\* the callbacks on threads that the host keeps running
SpecLive == InitLive /\ [][NextLive]_vars /\ Fairness
\* longer runs of the callbacks over ring buffers of the capacity of SpecLive
SpecRecover == InitLive /\ [][NextRecover]_vars

\* ------------------------------------------------------------ properties
IsPrefix(a, b) == Len(a) <= Len(b) /\ a = SubSeq(b, 1, Len(a))

\* the samples the playback callback has taken out of channel c so far
taken_by_playback(c) ==
    removed[c] \o (IF iter[c].live THEN Take(iter[c].snap, iter[c].taken) ELSE <<>>)

\* the for_each loop of the current playback invocation has run
mixed == out_pc \in {"drop_mic", "drop_capture", "report"}

\* C1: when no capture invocation dropped a sample and no output slot
\* received silence, the i-th sample written to the output is the sum of
\* the i-th samples accepted into the two channels.
C1_OutputIsSumByPosition ==
    ((\A c \in Src : lost[c] = 0) /\ ~silence) =>
        \A i \in 1..Len(written) :
            /\ i <= Len(accepted["mic"])
            /\ i <= Len(accepted["capture"])
            /\ written[i] = accepted["mic"][i] + accepted["capture"][i]

\* C2: per channel, the samples the playback callback has taken are a
\* prefix, in order and in value, of the samples accepted into the channel.
C2_TakenIsPrefixOfAccepted ==
    \A c \in Src : IsPrefix(taken_by_playback(c), accepted[c])

C2_Witness ==
    \E c \in Src : nplay = 2 /\ Len(removed[c]) >= 2 /\ Len(rb[c]) >= 1

\* C3: a capture invocation that found f free slots for its block of n
\* samples appends the leading min(n, f) samples of the block behind the
\* samples already queued, and drops the other n - min(n, f).
C3_PushAppendsLeadingSamples ==
    [][\A c \in Src :
        (in_pc[c] = "push" /\ in_pc'[c] = "idle") =>
            LET n == Len(in_data[c])
                k == IF n < in_free[c] THEN n ELSE in_free[c]
            IN  /\ rb'[c] = rb[c] \o [i \in 1..k |-> in_data[c][i]]
                /\ accepted'[c] = accepted[c] \o [i \in 1..k |-> in_data[c][i]]
                /\ in_dropped'[c] = n - k]_vars

C3_Witness ==
    \E c \in Src : in_pc[c] = "idle" /\ in_dropped[c] = 1 /\ Len(rb[c]) = capacity
                   /\ accepted[c][Len(accepted[c])] = 1

\* C4: in a playback invocation a slot for which only one channel had a
\* sample holds that sample, a slot for which neither had one holds 0.0,
\* and slot i takes the i-th sample the channel held.
C4_SilenceIsAdditiveIdentity ==
    mixed =>
        LET M == iter["mic"].snap
            C == iter["capture"].snap
        IN  \A i \in 1..Len(data) :
                /\ (i <= Len(M) /\ i > Len(C)) => data[i] = M[i]
                /\ (i > Len(M) /\ i <= Len(C)) => data[i] = C[i]
                /\ (i > Len(M) /\ i > Len(C)) => data[i] = 0

C4_Witness ==
    /\ out_pc = "drop_mic"
    /\ Len(data) = 2
    /\ Len(iter["mic"].snap) = 1
    /\ Len(iter["capture"].snap) = 0

\* C5: a playback invocation prints "input stream fell behind" once if one
\* of its slots received silence for a source, and not at all otherwise.
C5_ReportIffSilence ==
    (out_pc = "idle" /\ nplay > 0) => out_msgs = (IF subst THEN 1 ELSE 0)

\* C6: a capture invocation prints "output stream fell behind" once if it
\* did not enqueue its whole block and not at all otherwise, and every
\* sample delivered so far is either in the accepted sequence or lost.
C6_ReportIffDropped ==
    \A c \in Src :
        in_pc[c] = "idle" =>
            /\ in_msgs[c] = (IF in_dropped[c] > 0 THEN 1 ELSE 0)
            /\ Len(accepted[c]) + lost[c] = delivered[c]

C6_Witness ==
    \E c \in Src : in_pc[c] = "idle" /\ ncap[c] = 2 /\ in_msgs[c] = 1 /\ lost[c] >= 1

\* C7: before any stream is started each channel holds exactly P samples
\* of silence, for one P >= 1 with 2 * P within the capacity.
C7_PreloadedBeforeStart ==
    playing = {} =>
        \E P \in 1..capacity :
            /\ 2 * P <= capacity
            /\ \A c \in Src : rb[c] = [i \in 1..P |-> 0]

\* C8: once err_fn has been invoked, no step appends to a channel, pops
\* from a channel or writes mixed samples.
C8_StoppedAfterError ==
    [][err_msgs > 0 => UNCHANGED <<rb, accepted, removed, written>>]_vars

\* C9: each channel holds between 0 and 10,240 samples, and the capacity
\* stays the one given at construction.
C9_OccupancyWithinCapacity ==
    /\ capacity = RING_CAPACITY
    /\ \A c \in Src : Len(rb[c]) >= 0 /\ Len(rb[c]) <= RING_CAPACITY

C9_Witness ==
    \E c \in Src : Len(rb[c]) = RING_CAPACITY /\ lost[c] > 0

\* C10: a playback invocation for n slots takes min(n, occupancy seen by
\* pop_iter) samples from each channel, every one of them for a slot.
C10_PopsOnePerSlot ==
    mixed =>
        \A c \in Src :
            iter[c].taken = (IF Len(data) < Len(iter[c].snap)
                             THEN Len(data) ELSE Len(iter[c].snap))

\* C11: a capture invocation and a playback invocation always have a next
\* step to take, whatever the other callbacks do, and each of them returns;
\* the playback loop writes as many slots as the output block has.
C11_CallbacksReturn ==
    /\ [](\A c \in Src : in_pc[c] = "push" => ENABLED input_push(c))
    /\ [](out_pc # "idle" => ENABLED output_steps)
    /\ [][(out_pc = "for_each" /\ out_pc' # out_pc) =>
            out_pc' = "drop_mic" /\ Len(written') = Len(written) + Len(data)]_vars
    /\ \A c \in Src : (in_pc[c] = "push") ~> (in_pc[c] = "idle")
    /\ (out_pc # "idle") ~> (out_pc = "idle")

\* a capture invocation that found its channel full has returned
C11_Witness ==
    \E c \in Src : /\ in_pc[c] = "idle"
                    /\ ncap[c] = 2
                    /\ Len(rb[c]) = capacity
                    /\ in_free[c] = 0
                    /\ in_dropped[c] > 0

\* C12: a step of the capture callback of one source leaves the other
\* channel as it is and only appends to its own; a step of the playback
\* callback leaves a channel it found empty as it is, and the number of
\* samples it takes from a channel depends on that channel and the block
\* length alone.
C12_FrameEffects ==
    /\ [][\A c \in Src :
            in_pc'[c] # in_pc[c] =>
                /\ \A d \in Src \ {c} : rb'[d] = rb[d]
                /\ IsPrefix(rb[c], rb'[c])]_vars
    /\ [][out_pc' # out_pc =>
            \A c \in Src : iter[c].snap = <<>> => rb'[c] = rb[c]]_vars
    /\ [](mixed =>
            \A c \in Src :
                iter[c].taken = (IF Len(data) + 1 < Len(iter[c].snap)
                                 THEN Len(data) + 1 ELSE Len(iter[c].snap)))

\* the playback callback found the microphone channel empty and took
\* samples from the game capture channel, and the microphone channel keeps
\* what its capture callback pushed in the meantime
C12_Witness ==
    /\ mixed
    /\ iter["mic"].snap = <<>>
    /\ iter["capture"].taken = 2
    /\ rb["mic"] # <<>>

\* the i-th sample of q, or 0 when q is shorter
SampleAt(q, i) == IF i <= Len(q) THEN q[i] ELSE 0

\* C13: without overrun, what the channels hold before the first playback
\* invocation, and the output block and the channels after a playback
\* invocation during which no capture callback ran, are determined by the
\* samples each source delivered, whatever the order of the capture
\* invocations of the two sources was.
C13_OrderOfSourcesIrrelevant ==
    ((\A c \in Src : lost[c] = 0 /\ in_pc[c] = "idle") =>
        /\ \A c \in Src : accepted[c] = offered[c]
        /\ nplay = 0 => \A c \in Src : rb[c] = offered[c]
        /\ (nplay = 1 /\ out_pc = "idle" /\ quiet) =>
            LET n == Len(data)
            IN  /\ data = [i \in 1..n |-> SampleAt(offered["mic"], i)
                                           + SampleAt(offered["capture"], i)]
                /\ \A c \in Src :
                      rb[c] = SubSeq(offered[c], n + 2, Len(offered[c])))

\* both sources delivered two blocks before a playback invocation that no
\* capture callback interrupted
C13_Witness ==
    /\ \A c \in Src : lost[c] = 0 /\ in_pc[c] = "idle" /\ ncap[c] = 2
    /\ nplay = 1 /\ out_pc = "idle" /\ quiet
    /\ Len(data) = 2

C15_EverySlotOverwritten ==
    mixed => \A i \in 1..Len(data) : data[i] # Stale

\* both channels were empty and the output block has two slots
C15_Witness ==
    /\ mixed
    /\ iter["mic"].snap = <<>>
    /\ iter["capture"].snap = <<>>
    /\ data = <<0, 0>>
====
